---- MODULE Spec2Model ----
(***************************************************************************)
(* Model of SentiNet's Trainer (src/trainer.py): construction,             *)
(* prepare_model, prepare_lossfn_optims_lr_scheduler, accuracy and the     *)
(* train loop with its checkpoint write.                                   *)
(*                                                                         *)
(* The Model, the loss function, the optimizer, the scheduler and the two  *)
(* batch generators are external capabilities.  A batch carries what the   *)
(* Model produces on it: its size, the number of rows whose arg-max equals *)
(* the label, and the scalar loss.  A path is the sequence of its          *)
(* components; the file system is the set of directories and the set of    *)
(* files that exist, relative to the working directory.                    *)
(***************************************************************************)
EXTENDS Integers, Sequences, FiniteSets, TLC

\* ---------------------------------------------------------------- bounds
MaxEpochs == 2
MaxTrainBatches == 2
MaxEvalBatches == 2
MaxSource == 4
MaxCalls == 2

\* ------------------------------------------------------- program values
Unbound == -1                 \* a local name that was never assigned
NonePath == <<"None">>        \* model_save_path=None, the constructor's default
NoReturn == <<>>              \* train has not returned
NoError == "none"
Absent == "absent"            \* an object that was not constructed

Criterators == {"bce", "cel", "sgd"}
OptimizerTypes == {"radam", "adamw", "sgd"}

SavePaths == { <<"out", "my.bin">>, <<"a", "b", "my.bin">>, <<"my.bin">>, NonePath }
InitialDirs == { {}, {<<"out">>} }

\* ------------------------------------------------------- batch sources
\* The k-th batch a train generator yields (k = 1, 2, ...).
TrainBatchAt(k) ==
    [size |-> 1 + (k % 2), correct |-> k % 2, loss |-> 1 + (k % 3)]

\* The k-th batch of test generator v.
TestBatchAt(v, k) ==
    LET s == 1 + ((k + v) % 2)
    IN  [size |-> s, correct |-> (k * (v + 1)) % (s + 1), loss |-> 0]

TrainSources == { [k \in 1..n |-> TrainBatchAt(k)] : n \in 0..MaxSource }
TestSources == { [k \in 1..n |-> TestBatchAt(v, k)] : n \in 0..MaxSource, v \in 0..1 }

\* ------------------------------------------------------------- numbers
RECURSIVE Gcd(_, _)
Gcd(a, b) == IF b = 0 THEN a ELSE Gcd(b, a % b)

\* The quotient n / d of two non-negative numbers, d > 0, in lowest terms.
Quot(n, d) == LET g == Gcd(n, d) IN <<n \div g, d \div g>>

\* f"{float(c/t)*100:.2f}": the percentage in hundredths, rounded to nearest
\* (no tie can occur while t < 32).
Percent2f(c, t) == (20000 * c + t) \div (2 * t)

\* ------------------------------------------------------------ accuracy
\* accuracy(y_pred, y_target): the mean of the row-wise equality of the arg-max
\* class and the label, for a batch with `correct` equal rows out of `size`.
Accuracy(b) == Quot(b.correct, b.size)

\* ((argmax(softmax(pred)) == label).sum()).item(), and input_batch.size(0)
CorrectCount(b) == b.correct
BatchSize(b) == b.size

\* --------------------------------------------- optimization plan builder
\* prepare_lossfn_optims_lr_scheduler.  The record holds what the call left
\* constructed and the exception it raised, if any.
PrepareLossfnOptimsLrScheduler(criterator, optimizer_type) ==
    LET loss_fn == IF criterator = "cel" THEN "CrossEntropyLoss" ELSE Absent
        optimizer == IF optimizer_type = "radam" THEN "RAdam"
                     ELSE IF optimizer_type = "adamw" THEN "AdamW"
                     ELSE Absent
    IN  IF criterator = "bce"
        THEN \* nn.BCE does not exist
             [err |-> "AttributeError", loss_fn |-> Absent,
              optimizer |-> Absent, scheduler |-> Absent]
        ELSE IF optimizer = Absent
        THEN \* ExponentialLR(optimizer, ...) reads the unassigned local
             [err |-> "UnboundLocalError", loss_fn |-> loss_fn,
              optimizer |-> Absent, scheduler |-> Absent]
        ELSE IF loss_fn = Absent
        THEN \* the return statement reads the unassigned local
             [err |-> "UnboundLocalError", loss_fn |-> Absent,
              optimizer |-> optimizer, scheduler |-> "ExponentialLR"]
        ELSE [err |-> NoError, loss_fn |-> loss_fn,
              optimizer |-> optimizer, scheduler |-> "ExponentialLR"]

NoPlan == [err |-> NoError, loss_fn |-> Absent, optimizer |-> Absent, scheduler |-> Absent]

\* ------------------------------------------------------------ file system
\* os.path.dirname
Dirname(p) == SubSeq(p, 1, Len(p) - 1)

\* os.path.isdir: the empty path is not a directory
IsDir(ds, d) == d # <<>> /\ d \in ds

\* os.mkdir(d): the exception it raises, NoError when it creates d
MkdirError(ds, fl, d) ==
    IF d = <<>> THEN "FileNotFoundError"
    ELSE IF d \in ds \/ d \in fl THEN "FileExistsError"
    ELSE IF Dirname(d) # <<>> /\ Dirname(d) \notin ds THEN "FileNotFoundError"
    ELSE NoError

\* the rewritten path under the file name the log message announces
RewrittenPathAsLogged(p) == Append(Dirname(p), "imdb-sa.bin")

\* the file name the path is rewritten to when the directory was missing
RewrittenPath(p) == Append(Dirname(p), "imd-sa.bin")

\* torch.save(state_dict, p): the exception it raises, NoError when it writes p
SaveError(ds, p) ==
    IF p \in ds THEN "IsADirectoryError"
    ELSE IF Dirname(p) # <<>> /\ Dirname(p) \notin ds THEN "FileNotFoundError"
    ELSE NoError

\* Lines 303-315 of train: the checkpoint write for save path p.
SaveModel(p, ds, fl) ==
    IF p = NonePath
    THEN [err |-> "TypeError", dirs |-> ds, files |-> fl, path |-> p,
          saved |-> NonePath, existed |-> "na"]
    ELSE IF ~IsDir(ds, Dirname(p))
    THEN IF MkdirError(ds, fl, Dirname(p)) # NoError
         THEN [err |-> MkdirError(ds, fl, Dirname(p)), dirs |-> ds, files |-> fl,
               path |-> p, saved |-> NonePath, existed |-> "no"]
         ELSE [err |-> NoError, dirs |-> ds \cup {Dirname(p)},
               files |-> fl \cup {RewrittenPath(p)},
               path |-> RewrittenPath(p), saved |-> RewrittenPath(p), existed |-> "no"]
    ELSE IF SaveError(ds, p) # NoError
    THEN [err |-> SaveError(ds, p), dirs |-> ds, files |-> fl, path |-> p,
          saved |-> NonePath, existed |-> "yes"]
    ELSE [err |-> NoError, dirs |-> ds, files |-> fl \cup {p}, path |-> p,
          saved |-> p, existed |-> "yes"]

\* ------------------------------------------------------------------ state
VARIABLES
    self,               \* the Trainer's fields set by __init__ (and device)
    supplied,           \* the arguments the constructor was called with
    train_generator,    \* batches the train iterator has yet to yield
    test_generator,     \* batches the test iterator has yet to yield
    dirs, files,        \* directories and files that exist
    model,              \* the Model passed to train: [training]
    grad_enabled,       \* torch's gradient tracking switch
    calls,              \* calls to train so far
    pc,                 \* position of the caller / of train
    phase,              \* phase of the current call to train
    err,                \* the exception train raised
    num_epochs, epoch,  \* train's argument and its loop variable
    i,                  \* the local i, shared by both batch loops
    bar,                \* items the current trange has yielded
    train_loss, train_acc, test_acc,
    running_train_loss, correct_prediction, total,
    plan,               \* criteration, optimizer, lr_scheduler
    batch,              \* the batch being processed
    ret,                \* the tuple train returned
    optSteps,           \* optimizer.step() calls of this call
    schedSteps,         \* lr_scheduler.step() calls of this call
    trainPulls,         \* next(self.train_generator) calls of this call
    testPulls,          \* next(self.test_generator) calls of this call
    val_batches,        \* validation batches of the current epoch
    mean_loss_out,      \* the last printed average training loss
    val_acc_out,        \* the last printed validation accuracy
    dir_existed,        \* os.path.isdir at line 303: "na", "yes", "no"
    saved,              \* the path torch.save wrote in this call
    params,             \* parameter updates the Model has received
    grads,              \* the parameters' gradients: "none", "zero", "fresh", "accumulated"
    zeroGrads,          \* optimizer.zero_grad() calls of this call
    forwards,           \* training forward passes of this call
    backwards,          \* loss.backward() calls of this call
    precond             \* the call started with everything train relies on in place

trainer == <<self, supplied>>
sources == <<train_generator, test_generator>>
fsys == <<dirs, files>>
histories == <<train_loss, train_acc, test_acc>>
counters == <<running_train_loss, correct_prediction, total>>
loopvars == <<num_epochs, epoch, i, bar>>
observed == <<optSteps, schedSteps, trainPulls, testPulls, val_batches,
              mean_loss_out, val_acc_out, dir_existed, saved>>
autograd == <<params, grads, zeroGrads, forwards, backwards>>
vars == <<trainer, sources, fsys, model, grad_enabled, calls, pc, phase, err,
          loopvars, histories, counters, plan, batch, ret, observed, autograd, precond>>

NoBatch == [size |-> 0, correct |-> 0, loss |-> 0]
NoOutput == <<>>

\* Trainer.__init__ followed by nothing else
Init ==
    /\ \E bt \in 0..MaxTrainBatches, be \in 0..MaxEvalBatches,
          c \in Criterators, o \in OptimizerTypes, p \in SavePaths :
          /\ supplied = [batch_per_epoch_train |-> bt, batch_per_epoch_eval |-> be,
                         criterator |-> c, optimizer_type |-> o, model_save_path |-> p]
          /\ self = [batch_per_epoch_train |-> bt, batch_per_epoch_eval |-> be,
                     criterator |-> c, optimizer_type |-> o, model_save_path |-> p,
                     device |-> "unset"]
    /\ train_generator \in TrainSources
    /\ test_generator \in TestSources
    /\ dirs \in InitialDirs
    /\ files = {}
    /\ model = [training |-> TRUE]
    /\ grad_enabled = TRUE
    /\ calls = 0
    /\ pc = "idle" /\ phase = "None" /\ err = NoError
    /\ num_epochs = 0 /\ epoch = 0 /\ i = Unbound /\ bar = 0
    /\ train_loss = <<>> /\ train_acc = <<>> /\ test_acc = <<>>
    /\ running_train_loss = 0 /\ correct_prediction = 0 /\ total = 0
    /\ plan = NoPlan /\ batch = NoBatch /\ ret = NoReturn
    /\ optSteps = 0 /\ schedSteps = 0 /\ trainPulls = 0 /\ testPulls = 0
    /\ val_batches = <<>> /\ mean_loss_out = NoOutput /\ val_acc_out = NoOutput
    /\ dir_existed = "na" /\ saved = NonePath
    /\ params = 0 /\ grads = "none"
    /\ zeroGrads = 0 /\ forwards = 0 /\ backwards = 0
    /\ precond = FALSE

\* the caller holds control: before the first call, or after train ended
AtCaller == pc \in {"idle", "done", "raised"}

\* an exception leaves train: nothing catches it
Raise(e) == pc' = "raised" /\ err' = e

\* prepare_model: choose the device and move the model to it
PrepareModel ==
    /\ AtCaller
    /\ \E cuda \in BOOLEAN :
          self' = [self EXCEPT !.device = IF cuda THEN "cuda:0" ELSE "cpu"]
    /\ UNCHANGED <<supplied, sources, fsys, model, grad_enabled, calls, pc, phase, err,
                   loopvars, histories, counters, plan, batch, ret, observed,
                   autograd, precond>>

\* ------------------------------------------------------ control of train
\* a trange that yields one item too many
TrangeOffByOne(b, n) == b <= n

\* trange(n) has another item after yielding b of them
TrangeHasNext(b, n) == b < n

\* an exhausted train generator that only ends the batch loop
TrainExhaustedBreaks == "mean_loss"

\* where control goes when next(self.train_generator) raises StopIteration
TrainExhausted == "raised"

\* where control goes when next(self.test_generator) raises StopIteration
TestExhausted == "raised"

\* an epoch that goes on without the scheduler step
AfterValidationSkipsStep == "epoch"

\* the statement that follows the validation phase of an epoch
AfterValidation == "lr_step"

\* a count of correct predictions carried over from the previous epoch
StaleCorrect == correct_prediction

\* correct_prediction = 0.0 and total = 0.0 at the start of a validation phase
InitialCorrect == 0
InitialTotal == 0

\* lr_scheduler.step()
LrSchedulerStep(n) == n + 1

\* an epoch loop that runs one epoch too many
EpochOneTooMany(e, n) == e <= n

\* range(1, num_epochs+1) has another epoch after epoch e
EpochHasNext(e, n) == e < n

\* a training mode left as the previous phase set it
TrainModeKept == model.training

\* model.train(True)
TrainMode == TRUE

\* gradients that are not cleared before the forward pass
ZeroGradSkipped(g) == g

\* optimizer.zero_grad(): the gradients after it
ZeroGradOf(g) == "zero"

\* loss.backward(): the gradients after it
BackwardOf(g) == IF g \in {"zero", "none"} THEN "fresh" ELSE "accumulated"

\* optimizer.step(): the parameter updates after it
OptimizerStepOf(p) == p + 1

\* a history that keeps only the latest loss
RecordLossOverwrites(h, x) == <<x>>

\* train_loss.append(loss.item())
RecordLoss(h, x) == Append(h, x)

\* a validation batch that also updates the parameters
ValidateParamsStepped(p) == p + 1

\* the validation loop calls neither backward nor the optimizer
ValidateParams(p) == p

\* what a call to train(model, n) relies on: prepare_model was called, both
\* batch counts are positive, both generators hold enough batches, the kinds
\* are "cel" and "radam" or "adamw", and the checkpoint can be written
Precondition(n) ==
    /\ self.device # "unset"
    /\ self.batch_per_epoch_train >= 1
    /\ self.batch_per_epoch_eval >= 1
    /\ Len(train_generator) >= n * self.batch_per_epoch_train
    /\ Len(test_generator) >= n * self.batch_per_epoch_eval
    /\ self.criterator = "cel"
    /\ self.optimizer_type \in {"radam", "adamw"}
    /\ SaveModel(self.model_save_path, dirs, files).err = NoError

\* lines 198-204: empty histories, then the optimization plan
TrainCall(n) ==
    /\ AtCaller
    /\ calls < MaxCalls
    /\ calls' = calls + 1
    /\ num_epochs' = n /\ epoch' = 0 /\ i' = Unbound /\ bar' = 0
    /\ train_loss' = <<>> /\ train_acc' = <<>> /\ test_acc' = <<>>
    /\ running_train_loss' = 0 /\ correct_prediction' = 0 /\ total' = 0
    /\ batch' = NoBatch /\ ret' = NoReturn
    /\ optSteps' = 0 /\ schedSteps' = 0 /\ trainPulls' = 0 /\ testPulls' = 0
    /\ val_batches' = <<>> /\ mean_loss_out' = NoOutput /\ val_acc_out' = NoOutput
    /\ dir_existed' = "na" /\ saved' = NonePath
    /\ phase' = "Init"
    /\ plan' = PrepareLossfnOptimsLrScheduler(self.criterator, self.optimizer_type)
    /\ IF plan'.err # NoError
       THEN Raise(plan'.err)
       ELSE pc' = "epoch" /\ err' = NoError
    /\ zeroGrads' = 0 /\ forwards' = 0 /\ backwards' = 0
    /\ precond' = Precondition(n)
    /\ UNCHANGED <<trainer, sources, fsys, model, grad_enabled, params, grads>>

\* line 206-214: the head of the epoch loop and the start of its training phase
EpochLoop ==
    /\ pc = "epoch"
    /\ IF EpochHasNext(epoch, num_epochs)
       THEN /\ epoch' = epoch + 1
            /\ running_train_loss' = 0
            /\ model' = [model EXCEPT !.training = TrainMode]
            /\ bar' = 0
            /\ phase' = "TrainPhase"
            /\ pc' = IF TrangeHasNext(0, self.batch_per_epoch_train)
                     THEN "train_pull" ELSE "mean_loss"
       ELSE /\ pc' = "checkpoint"
            /\ phase' = "Checkpoint"
            /\ UNCHANGED <<epoch, running_train_loss, model, bar>>
    /\ UNCHANGED <<trainer, sources, fsys, grad_enabled, calls, err, num_epochs, i,
                   histories, correct_prediction, total, plan, batch, ret, observed,
                   autograd, precond>>

\* lines 215-218: the next index, the next train batch, its transfer to the device
TrainPull ==
    /\ pc = "train_pull"
    /\ i' = bar
    /\ bar' = bar + 1
    /\ trainPulls' = trainPulls + 1
    /\ IF train_generator = <<>>
       THEN /\ pc' = TrainExhausted /\ err' = "StopIteration"
            /\ UNCHANGED <<train_generator, batch>>
       ELSE /\ batch' = Head(train_generator)
            /\ train_generator' = Tail(train_generator)
            /\ IF self.device = "unset"
               THEN Raise("AttributeError")
               ELSE pc' = "zero_grad" /\ err' = err
    /\ UNCHANGED <<trainer, test_generator, fsys, model, grad_enabled, calls, phase,
                   num_epochs, epoch, histories, counters, plan, ret,
                   optSteps, schedSteps, testPulls, val_batches,
                   mean_loss_out, val_acc_out, dir_existed, saved,
                   autograd, precond>>

\* line 221: optimizer.zero_grad()
ZeroGrad ==
    /\ pc = "zero_grad"
    /\ pc' = "forward"
    /\ grads' = ZeroGradOf(grads)
    /\ zeroGrads' = zeroGrads + 1
    /\ UNCHANGED <<trainer, sources, fsys, model, grad_enabled, calls, phase, err,
                   loopvars, histories, counters, plan, batch, ret, observed,
                   params, forwards, backwards, precond>>

\* lines 222-224: forward pass, loss and accuracy of the batch
Forward ==
    /\ pc = "forward"
    /\ pc' = "record"
    /\ forwards' = forwards + 1
    /\ UNCHANGED <<trainer, sources, fsys, model, grad_enabled, calls, phase, err,
                   loopvars, histories, counters, plan, batch, ret, observed,
                   params, grads, zeroGrads, backwards, precond>>

\* lines 227-228: store the metrics
Record ==
    /\ pc = "record"
    /\ train_loss' = RecordLoss(train_loss, batch.loss)
    /\ train_acc' = Append(train_acc, Accuracy(batch))
    /\ pc' = "backward"
    /\ UNCHANGED <<trainer, sources, fsys, model, grad_enabled, calls, phase, err,
                   loopvars, test_acc, counters, plan, batch, ret, observed,
                   autograd, precond>>

\* line 231: loss.backward()
Backward ==
    /\ pc = "backward"
    /\ pc' = "opt_step"
    /\ grads' = BackwardOf(grads)
    /\ backwards' = backwards + 1
    /\ UNCHANGED <<trainer, sources, fsys, model, grad_enabled, calls, phase, err,
                   loopvars, histories, counters, plan, batch, ret, observed,
                   params, zeroGrads, forwards, precond>>

\* lines 232-263: optimizer.step(), the running loss, and the loop test
OptimizerStep ==
    /\ pc = "opt_step"
    /\ optSteps' = optSteps + 1
    /\ running_train_loss' = running_train_loss + batch.loss
    /\ pc' = IF TrangeHasNext(bar, self.batch_per_epoch_train)
             THEN "train_pull" ELSE "mean_loss"
    /\ params' = OptimizerStepOf(params)
    /\ UNCHANGED <<trainer, sources, fsys, model, grad_enabled, calls, phase, err,
                   loopvars, histories, correct_prediction, total, plan, batch, ret,
                   schedSteps, trainPulls, testPulls, val_batches,
                   mean_loss_out, val_acc_out, dir_existed, saved,
                   grads, zeroGrads, forwards, backwards, precond>>

\* line 265: print running_train_loss/i
MeanLoss ==
    /\ pc = "mean_loss"
    /\ IF i = Unbound
       THEN Raise("UnboundLocalError") /\ UNCHANGED mean_loss_out
       ELSE IF i = 0
       THEN Raise("ZeroDivisionError") /\ UNCHANGED mean_loss_out
       ELSE /\ mean_loss_out' = Quot(running_train_loss, i)
            /\ pc' = "val_begin" /\ err' = err
    /\ UNCHANGED <<trainer, sources, fsys, model, grad_enabled, calls, phase,
                   loopvars, histories, counters, plan, batch, ret,
                   optSteps, schedSteps, trainPulls, testPulls, val_batches,
                   val_acc_out, dir_existed, saved,
                   autograd, precond>>

\* lines 267-275: evaluation mode, no_grad, fresh counters
ValidateBegin ==
    /\ pc = "val_begin"
    /\ model' = [model EXCEPT !.training = FALSE]
    /\ grad_enabled' = FALSE
    /\ correct_prediction' = InitialCorrect
    /\ total' = InitialTotal
    /\ bar' = 0
    /\ val_batches' = <<>>
    /\ phase' = "ValidatePhase"
    /\ pc' = IF TrangeHasNext(0, self.batch_per_epoch_eval)
             THEN "val_pull" ELSE "val_acc"
    /\ UNCHANGED <<trainer, sources, fsys, calls, err, num_epochs, epoch, i,
                   histories, running_train_loss, plan, batch, ret,
                   optSteps, schedSteps, trainPulls, testPulls,
                   mean_loss_out, val_acc_out, dir_existed, saved,
                   autograd, precond>>

\* lines 276-279: the next index, the next test batch, its transfer to the device
ValidatePull ==
    /\ pc = "val_pull"
    /\ i' = bar
    /\ bar' = bar + 1
    /\ testPulls' = testPulls + 1
    /\ IF test_generator = <<>>
       THEN /\ pc' = TestExhausted /\ err' = "StopIteration"
            /\ grad_enabled' = TRUE
            /\ UNCHANGED <<test_generator, batch>>
       ELSE /\ batch' = Head(test_generator)
            /\ test_generator' = Tail(test_generator)
            /\ pc' = "val_forward" /\ err' = err
            /\ UNCHANGED grad_enabled
    /\ UNCHANGED <<trainer, train_generator, fsys, model, calls, phase,
                   num_epochs, epoch, histories, counters, plan, ret,
                   optSteps, schedSteps, trainPulls, val_batches,
                   mean_loss_out, val_acc_out, dir_existed, saved,
                   autograd, precond>>

\* lines 281-293: prediction, batch accuracy, the two counters, and the loop test
ValidateBatch ==
    /\ pc = "val_forward"
    /\ correct_prediction' = correct_prediction + CorrectCount(batch)
    /\ total' = total + BatchSize(batch)
    /\ test_acc' = Append(test_acc, Accuracy(batch))
    /\ val_batches' = Append(val_batches, batch)
    /\ pc' = IF TrangeHasNext(bar, self.batch_per_epoch_eval)
             THEN "val_pull" ELSE "val_acc"
    /\ params' = ValidateParams(params)
    /\ UNCHANGED <<trainer, sources, fsys, model, grad_enabled, calls, phase, err,
                   loopvars, train_loss, train_acc, running_train_loss, plan, batch, ret,
                   optSteps, schedSteps, trainPulls, testPulls,
                   mean_loss_out, val_acc_out, dir_existed, saved,
                   grads, zeroGrads, forwards, backwards, precond>>

\* line 295: print correct_prediction/total, then leave no_grad
ValidationAccuracy ==
    /\ pc = "val_acc"
    /\ grad_enabled' = TRUE
    /\ IF total = 0
       THEN Raise("ZeroDivisionError") /\ UNCHANGED val_acc_out
       ELSE /\ val_acc_out' = Percent2f(correct_prediction, total)
            /\ pc' = AfterValidation /\ err' = err
    /\ UNCHANGED <<trainer, sources, fsys, model, calls, phase,
                   loopvars, histories, counters, plan, batch, ret,
                   optSteps, schedSteps, trainPulls, testPulls, val_batches,
                   mean_loss_out, dir_existed, saved,
                   autograd, precond>>

\* line 297: lr_scheduler.step()
LrStep ==
    /\ pc = "lr_step"
    /\ schedSteps' = LrSchedulerStep(schedSteps)
    /\ pc' = "epoch"
    /\ UNCHANGED <<trainer, sources, fsys, model, grad_enabled, calls, phase, err,
                   loopvars, histories, counters, plan, batch, ret,
                   optSteps, trainPulls, testPulls, val_batches,
                   mean_loss_out, val_acc_out, dir_existed, saved,
                   autograd, precond>>

\* lines 299-315: the checkpoint write and the return
Checkpoint ==
    /\ pc = "checkpoint"
    /\ LET r == SaveModel(self.model_save_path, dirs, files)
       IN  /\ dirs' = r.dirs
           /\ files' = r.files
           /\ self' = [self EXCEPT !.model_save_path = r.path]
           /\ dir_existed' = r.existed
           /\ saved' = r.saved
           /\ IF r.err # NoError
              THEN Raise(r.err) /\ UNCHANGED <<ret, phase>>
              ELSE /\ pc' = "done" /\ err' = err
                   /\ phase' = "Done"
                   /\ ret' = <<train_loss, train_acc, test_acc, r.path>>
    /\ UNCHANGED <<supplied, sources, model, grad_enabled, calls,
                   loopvars, histories, counters, plan, batch,
                   optSteps, schedSteps, trainPulls, testPulls, val_batches,
                   mean_loss_out, val_acc_out,
                   autograd, precond>>

Next ==
    \/ PrepareModel
    \/ \E n \in 0..MaxEpochs : TrainCall(n)
    \/ EpochLoop
    \/ TrainPull
    \/ ZeroGrad
    \/ Forward
    \/ Record
    \/ Backward
    \/ OptimizerStep
    \/ MeanLoss
    \/ ValidateBegin
    \/ ValidatePull
    \/ ValidateBatch
    \/ ValidationAccuracy
    \/ LrStep
    \/ Checkpoint

Spec == Init /\ [][Next]_vars

\* ================================================================ claims
RECURSIVE SumCorrect(_)
SumCorrect(bs) == IF bs = <<>> THEN 0 ELSE Head(bs).correct + SumCorrect(Tail(bs))

RECURSIVE SumSize(_)
SumSize(bs) == IF bs = <<>> THEN 0 ELSE Head(bs).size + SumSize(Tail(bs))

\* the sum of the batch accuracies correct/size, as a fraction <<num, den>>
RECURSIVE SumAccuracy(_)
SumAccuracy(bs) ==
    IF bs = <<>> THEN <<0, 1>>
    ELSE LET r == SumAccuracy(Tail(bs))
         IN  <<r[1] * Head(bs).size + Head(bs).correct * r[2], r[2] * Head(bs).size>>

\* the mean of the batch accuracies, printed like the validation accuracy
MeanOfBatchAccuracies(bs) ==
    Percent2f(SumAccuracy(bs)[1], SumAccuracy(bs)[2] * Len(bs))

InTrainPhase == phase = "TrainPhase"
InValidatePhase == phase = "ValidatePhase"

\* C1: the scheduler has stepped once for every finished epoch and not for the
\* current one: during the training and validation phase of epoch e it has
\* stepped e-1 times, it steps only after the last validation batch of e, it
\* has stepped e times at the next loop head, and num_epochs times at the
\* checkpoint and at the return.
C1_SchedulerOncePerEpoch ==
    /\ (InTrainPhase \/ InValidatePhase) /\ pc # "epoch" => schedSteps = epoch - 1
    /\ pc = "lr_step" =>
          /\ InValidatePhase
          /\ Len(val_batches) = self.batch_per_epoch_eval
          /\ optSteps = epoch * self.batch_per_epoch_train
    /\ pc = "epoch" => schedSteps = epoch
    /\ pc \in {"checkpoint", "done"} => schedSteps = num_epochs
    /\ phase = "Checkpoint" => schedSteps = num_epochs

C1_Witness ==
    /\ pc = "done" /\ num_epochs = 2 /\ schedSteps = 2
    /\ Len(ret[1]) = 4

\* C2: a call that returned has num_epochs * batch_per_epoch_train entries in
\* train_loss and in train_acc and num_epochs * batch_per_epoch_eval in test_acc.
C2_HistoryLengths ==
    pc = "done" =>
        /\ Len(ret[1]) = num_epochs * self.batch_per_epoch_train
        /\ Len(ret[2]) = num_epochs * self.batch_per_epoch_train
        /\ Len(ret[3]) = num_epochs * self.batch_per_epoch_eval

C2_Witness ==
    /\ pc = "done" /\ num_epochs = 2
    /\ self.batch_per_epoch_train = 2 /\ self.batch_per_epoch_eval = 1
    /\ Len(ret[1]) = 4 /\ Len(ret[2]) = 4 /\ Len(ret[3]) = 2

UnrecognizedKind ==
    \/ self.criterator \notin {"bce", "cel"}
    \/ self.optimizer_type \notin {"radam", "adamw"}

\* C3: with an unrecognized loss or optimizer kind a call to train fails in its
\* Init phase with no optimizer and no scheduler built and no batch pulled.
C3_UnrecognizedKindBuildsNothing ==
    calls > 0 /\ UnrecognizedKind =>
        /\ pc = "raised" /\ phase = "Init"
        /\ plan.optimizer = Absent /\ plan.scheduler = Absent
        /\ trainPulls = 0 /\ testPulls = 0

\* C4: for the defined kinds the plan is built without error, with the binary
\* cross-entropy loss for "bce" and the cross-entropy loss for "cel", RAdam for
\* "radam" and AdamW for "adamw".
C4_DefinedKindsBuildPlan ==
    calls > 0 /\ ~UnrecognizedKind =>
        /\ plan.err = NoError
        /\ plan.loss_fn = (IF self.criterator = "bce" THEN "BCELoss" ELSE "CrossEntropyLoss")
        /\ plan.optimizer = (IF self.optimizer_type = "radam" THEN "RAdam" ELSE "AdamW")
        /\ plan.scheduler = "ExponentialLR"

\* C5: when train returned and the parent directory of the save path did not
\* exist at the checkpoint, the directory exists, it holds the checkpoint file,
\* and the returned path is named imd-sa.bin.
C5_MissingDirectoryCheckpoint ==
    pc = "done" /\ dir_existed = "no" =>
        /\ Dirname(ret[4]) \in dirs
        /\ ret[4] \in files
        /\ ret[4][Len(ret[4])] = "imd-sa.bin"

C5_Witness ==
    /\ pc = "done" /\ dir_existed = "no"
    /\ supplied.model_save_path = <<"out", "my.bin">>
    /\ ret[4] = <<"out", "imd-sa.bin">>
    /\ Len(ret[1]) > 0

\* C6: whenever the parent directory of the save path is missing at the
\* checkpoint, train creates it and returns.
C6_MissingDirectoryHandled ==
    dir_existed = "no" =>
        /\ pc = "done"
        /\ Dirname(self.model_save_path) \in dirs

\* C7: the returned path is the path the parameters were written to, a file
\* exists there, and when the parent directory already existed it is the path
\* given to the constructor.
C7_ReturnedPathIsSavedPath ==
    pc = "done" =>
        /\ ret[4] = saved
        /\ saved \in files
        /\ dir_existed = "yes" => ret[4] = supplied.model_save_path

\* C8: the configuration fields of the Trainer always equal the constructor's
\* arguments.
C8_ConfigurationReadOnly ==
    /\ self.batch_per_epoch_train = supplied.batch_per_epoch_train
    /\ self.batch_per_epoch_eval = supplied.batch_per_epoch_eval
    /\ self.criterator = supplied.criterator
    /\ self.optimizer_type = supplied.optimizer_type
    /\ self.model_save_path = supplied.model_save_path

\* C9: when a generator is exhausted, train ends with StopIteration at that
\* pull: it returns nothing and writes no checkpoint, every batch pulled before
\* has had its optimizer step and no other, the failing pull was the last
\* pull of either generator, and the scheduler stepped only for the finished
\* epochs.
C9_ExhaustionIsFatal ==
    err = "StopIteration" =>
        /\ pc = "raised"
        /\ ret = NoReturn /\ saved = NonePath /\ dir_existed = "na"
        /\ schedSteps = epoch - 1
        /\ Len(train_loss) = optSteps
        /\ InTrainPhase =>
              /\ train_generator = <<>>
              /\ trainPulls = (epoch - 1) * self.batch_per_epoch_train + i + 1
              /\ optSteps = trainPulls - 1
              /\ testPulls = (epoch - 1) * self.batch_per_epoch_eval
              /\ Len(test_acc) = testPulls
        /\ InValidatePhase =>
              /\ test_generator = <<>>
              /\ testPulls = (epoch - 1) * self.batch_per_epoch_eval + i + 1
              /\ Len(val_batches) = i
              /\ Len(test_acc) = testPulls - 1
              /\ trainPulls = epoch * self.batch_per_epoch_train
              /\ optSteps = trainPulls
        /\ InTrainPhase \/ InValidatePhase

C9_Witness ==
    /\ pc = "raised" /\ err = "StopIteration"
    /\ InTrainPhase /\ epoch = 2 /\ optSteps = 3 /\ schedSteps = 1

\* C10: the validation accuracy printed for an epoch is the number of correct
\* predictions over the number of examples of that epoch's validation batches,
\* and during the phase both counters hold the sums over the batches of this
\* epoch only.
C10_ValidationAccuracyExact ==
    /\ InValidatePhase /\ pc \in {"val_pull", "val_acc", "lr_step"} =>
          /\ correct_prediction = SumCorrect(val_batches)
          /\ total = SumSize(val_batches)
    /\ pc = "lr_step" =>
          /\ Len(val_batches) = self.batch_per_epoch_eval
          /\ val_acc_out = Percent2f(SumCorrect(val_batches), SumSize(val_batches))

C10_Witness ==
    /\ pc = "lr_step" /\ epoch = 2
    /\ Len(val_batches) = 2
    /\ val_batches[1].size # val_batches[2].size
    /\ val_acc_out = 6667
    /\ MeanOfBatchAccuracies(val_batches) = 5000

RECURSIVE SumSeq(_)
SumSeq(xs) == IF xs = <<>> THEN 0 ELSE Head(xs) + SumSeq(Tail(xs))

\* the last n entries of a sequence
LastN(xs, n) == SubSeq(xs, Len(xs) - n + 1, Len(xs))

InTrainBatch == pc \in {"zero_grad", "forward", "record", "backward", "opt_step"}

\* C12: with batch_per_epoch_train >= 1 the training batches of an epoch are
\* followed by the print of that epoch's mean loss, the sum of the epoch's
\* batch losses divided by batch_per_epoch_train, and never by a failure of
\* that division.
C12_MeanTrainingLoss ==
    self.batch_per_epoch_train >= 1 =>
        /\ pc = "val_begin" =>
              /\ running_train_loss =
                    SumSeq(LastN(train_loss, self.batch_per_epoch_train))
              /\ mean_loss_out = Quot(running_train_loss, self.batch_per_epoch_train)
        /\ ~(pc = "raised" /\ InTrainPhase /\ err = "ZeroDivisionError")

\* C13: the phase of a call changes only along Init, (TrainPhase,
\* ValidatePhase) for epochs 1..num_epochs, Checkpoint, Done: training starts
\* with epoch 1 on a plan built without error before any pull, validation of
\* an epoch starts after all its training batches, the next epoch or the
\* checkpoint follows the scheduler step of the epoch, and the checkpoint is
\* written once, in the Checkpoint phase.
C13_PhaseOrder ==
    [][ /\ \/ phase' = phase
           \/ phase' = "Init" /\ AtCaller /\ calls' = calls + 1
           \/ /\ phase = "Init" /\ phase' = "TrainPhase"
              /\ epoch' = 1 /\ num_epochs >= 1
              /\ plan.err = NoError /\ trainPulls = 0 /\ testPulls = 0
           \/ phase = "Init" /\ phase' = "Checkpoint" /\ num_epochs = 0
           \/ /\ phase = "TrainPhase" /\ phase' = "ValidatePhase"
              /\ epoch' = epoch
              /\ optSteps = epoch * self.batch_per_epoch_train
           \/ /\ phase = "ValidatePhase" /\ phase' = "TrainPhase"
              /\ epoch < num_epochs /\ epoch' = epoch + 1
              /\ schedSteps = epoch
              /\ Len(test_acc) = epoch * self.batch_per_epoch_eval
           \/ /\ phase = "ValidatePhase" /\ phase' = "Checkpoint"
              /\ epoch = num_epochs /\ schedSteps = num_epochs
           \/ /\ phase = "Checkpoint" /\ phase' = "Done"
              /\ saved = NonePath /\ saved' \in files'
        /\ plan' # plan => phase' = "Init" /\ calls' = calls + 1
        /\ files' # files => phase = "Checkpoint" /\ saved = NonePath
      ]_vars

C13_Witness ==
    /\ phase = "Done" /\ pc = "done" /\ num_epochs = 2 /\ epoch = 2
    /\ optSteps = 4 /\ saved \in files

\* C14: inside a training batch the steps come in the order pull, zero_grad,
\* forward, record, backward, optimizer step, each once: the counts of the
\* steps not yet taken for the batch equal the optimizer steps taken, those
\* already taken exceed them by one, the forward pass sees cleared gradients
\* and the optimizer the gradients of this batch only; at a batch boundary all
\* counts are equal; and the parameters change only in the optimizer step.
C14_TrainBatchOrder ==
    /\ [](/\ Len(train_acc) = Len(train_loss)
          /\ InTrainBatch => trainPulls = optSteps + 1
          /\ zeroGrads = optSteps + (IF pc \in {"forward", "record", "backward", "opt_step"} THEN 1 ELSE 0)
          /\ forwards = optSteps + (IF pc \in {"record", "backward", "opt_step"} THEN 1 ELSE 0)
          /\ Len(train_loss) = optSteps + (IF pc \in {"backward", "opt_step"} THEN 1 ELSE 0)
          /\ backwards = optSteps + (IF pc = "opt_step" THEN 1 ELSE 0)
          /\ pc \in {"forward", "record", "backward"} => grads = "zero"
          /\ pc = "opt_step" => grads = "fresh")
    /\ [][params' # params => pc = "opt_step" /\ params' = params + 1]_vars

C14_Witness ==
    /\ pc = "opt_step" /\ epoch = 1 /\ optSteps = 1 /\ params = 1
    /\ backwards = 2 /\ grads = "fresh"

\* C15: no step taken inside a validation phase changes the parameters or
\* the gradients, or is a backward pass, an optimizer step or a zero_grad.
C15_ValidationReadOnly ==
    [][InValidatePhase /\ phase' = "ValidatePhase" =>
          UNCHANGED <<params, grads, optSteps, backwards, zeroGrads>>]_vars

C15_Witness ==
    /\ pc = "lr_step" /\ InValidatePhase /\ epoch = 2
    /\ Len(val_batches) = 2 /\ params = 4

\* C16: every training batch runs in training mode with gradient tracking on,
\* every validation batch in evaluation mode with gradient tracking off, and
\* gradient tracking is on again once the validation phase is left.
C16_ModesPerPhase ==
    /\ InTrainBatch => model.training /\ grad_enabled
    /\ pc \in {"val_pull", "val_forward", "val_acc"} => ~model.training /\ ~grad_enabled
    /\ pc \in {"lr_step", "epoch", "checkpoint", "done", "raised"} => grad_enabled

C16_Witness ==
    /\ pc = "forward" /\ epoch = 2 /\ model.training /\ grad_enabled
    /\ Len(test_acc) > 0

IsAppendOrSame(h, g) ==
    \/ g = h
    \/ Len(g) = Len(h) + 1 /\ SubSeq(g, 1, Len(h)) = h

\* C17: a call to train starts with three empty histories, and every later
\* step leaves each history unchanged or appends one value to it.
C17_HistoriesAppendOnly ==
    [][IF calls' # calls
       THEN train_loss' = <<>> /\ train_acc' = <<>> /\ test_acc' = <<>>
       ELSE /\ IsAppendOrSame(train_loss, train_loss')
            /\ IsAppendOrSame(train_acc, train_acc')
            /\ IsAppendOrSame(test_acc, test_acc')]_vars

C17_Witness ==
    /\ pc = "val_forward" /\ epoch = 2
    /\ Len(train_loss) = 4 /\ Len(train_acc) = 4 /\ Len(test_acc) = 2
    /\ train_loss[1] # train_loss[2]

\* C18: once the device is selected it never changes.
C18_DeviceSelectedOnce ==
    [][self.device # "unset" => self'.device = self.device]_vars

\* C19: train batches are pulled only in the training phase and test batches
\* only in the validation phase, one at a time; after the training batches of
\* epoch e the call has pulled e * batch_per_epoch_train train batches, after
\* its validation batches e * batch_per_epoch_eval test batches, and a call
\* that returned num_epochs times as many as one epoch.
C19_PullsPerPhase ==
    /\ [](/\ pc \in {"mean_loss", "val_begin"} =>
                /\ trainPulls = epoch * self.batch_per_epoch_train
                /\ testPulls = (epoch - 1) * self.batch_per_epoch_eval
          /\ pc \in {"val_acc", "lr_step"} =>
                /\ trainPulls = epoch * self.batch_per_epoch_train
                /\ testPulls = epoch * self.batch_per_epoch_eval
          /\ pc = "done" =>
                /\ trainPulls = num_epochs * self.batch_per_epoch_train
                /\ testPulls = num_epochs * self.batch_per_epoch_eval)
    /\ [][/\ train_generator' # train_generator =>
                /\ InTrainPhase /\ phase' = phase
                /\ train_generator' = Tail(train_generator)
                /\ trainPulls' = trainPulls + 1
          /\ test_generator' # test_generator =>
                /\ InValidatePhase /\ phase' = phase
                /\ test_generator' = Tail(test_generator)
                /\ testPulls' = testPulls + 1]_vars

C19_Witness ==
    /\ pc = "done" /\ trainPulls = 4 /\ testPulls = 4
    /\ train_generator = <<>> /\ test_generator = <<>>

\* C20: a call to train that started with its preconditions in place does not
\* end with an exception.
C20_TrainReturns ==
    precond => pc # "raised"

====
